---- MODULE Spec2Model ----
(***************************************************************************)
(* auto-post-cron (src/index.js): a node-cron job that asks a text         *)
(* completion API for a code snippet, uploads a placeholder image to a     *)
(* Sanity content store and creates a post document.                       *)
(*                                                                         *)
(* JavaScript strings are modelled as sequences of one-character strings,  *)
(* so that split, trim, toLowerCase and the two regex replaces of          *)
(* generateSlug are computed character by character.  Two code points      *)
(* outside ASCII are written by name: "U+00C9" (E acute), "U+00E9" (e      *)
(* acute), "U+0130" (I with dot above) and "U+0307" (combining dot).       *)
(***************************************************************************)
EXTENDS Integers, Sequences, FiniteSets, TLC

VARIABLES
  fires,      \* number of times the cron callback has been invoked
  armed,      \* the node process (and with it the scheduled task) is alive
  inv,        \* one record per generateCodeSnippet() invocation, in start order
  assets,     \* the _ids of the image assets held by the content store
  documents,  \* the _ids of the documents held by the content store
  clock,      \* wall clock in Africa/Johannesburg: [day, hour, minute]
  justFired,  \* the scheduler fired at the current clock minute
  call        \* the last direct call of a pure helper: [fn, arg, ret]

vars == <<fires, armed, inv, assets, documents, clock, justFired, call>>

(***************************************************************************)
(* Bounds of the model.                                                    *)
(***************************************************************************)
MaxFires == 2
MaxTitleLen == 4
MaxDays == 1

(***************************************************************************)
(* Characters.                                                             *)
(***************************************************************************)
UpperCase == <<"A","B","C","D","E","F","G","H","I","J","K","L","M","N","O","P","Q","R","S","T","U","V","W","X","Y","Z">>
LowerCase == <<"a","b","c","d","e","f","g","h","i","j","k","l","m","n","o","p","q","r","s","t","u","v","w","x","y","z">>
Digits == <<"0","1","2","3","4","5","6","7","8","9">>

Range(s) == {s[i] : i \in DOMAIN s}

\* \s of a JavaScript regular expression, restricted to the characters used here
WhiteSpace == {" ", "\t", "\n"}

\* \w of a JavaScript regular expression: [A-Za-z0-9_]
WordChars == Range(UpperCase) \cup Range(LowerCase) \cup Range(Digits) \cup {"_"}

\* the characters [\w-] keeps
WordOrHyphen == WordChars \cup {"-"}

RECURSIVE Concat(_)
\* the concatenation of a sequence of strings
Concat(ss) == IF ss = <<>> THEN <<>> ELSE Head(ss) \o Concat(Tail(ss))

(***************************************************************************)
(* Constants of src/index.js.                                              *)
(***************************************************************************)
\* "https://via.placeholder.com/800x400.png?text="
PLACEHOLDER_IMAGE_API ==
  <<"h","t","t","p","s",":","/","/","v","i","a",".","p","l","a","c","e","h","o","l","d","e","r",".","c","o","m","/","8","0","0","x","4","0","0",".","p","n","g","?","t","e","x","t","=">>

promptList ==
  << (* Write a JavaScript function to reverse a string. *)
     <<"W","r","i","t","e"," ","a"," ","J","a","v","a","S","c","r","i","p","t"," ","f","u","n","c","t","i","o","n"," ","t","o"," ","r","e","v","e","r","s","e"," ","a"," ","s","t","r","i","n","g",".">>
   , (* Generate a Python script that reads a CSV file and prints the contents. *)
     <<"G","e","n","e","r","a","t","e"," ","a"," ","P","y","t","h","o","n"," ","s","c","r","i","p","t"," ","t","h","a","t"," ","r","e","a","d","s"," ","a"," ","C","S","V"," ","f","i","l","e"," ","a","n","d"," ","p","r","i","n","t","s"," ","t","h","e"," ","c","o","n","t","e","n","t","s",".">>
   , (* Create an HTML page with a simple form and a submit button. *)
     <<"C","r","e","a","t","e"," ","a","n"," ","H","T","M","L"," ","p","a","g","e"," ","w","i","t","h"," ","a"," ","s","i","m","p","l","e"," ","f","o","r","m"," ","a","n","d"," ","a"," ","s","u","b","m","i","t"," ","b","u","t","t","o","n",".">>
   , (* Write a CSS rule that creates a hover effect for buttons. *)
     <<"W","r","i","t","e"," ","a"," ","C","S","S"," ","r","u","l","e"," ","t","h","a","t"," ","c","r","e","a","t","e","s"," ","a"," ","h","o","v","e","r"," ","e","f","f","e","c","t"," ","f","o","r"," ","b","u","t","t","o","n","s",".">>
   , (* Generate a JavaScript snippet for handling form validation. *)
     <<"G","e","n","e","r","a","t","e"," ","a"," ","J","a","v","a","S","c","r","i","p","t"," ","s","n","i","p","p","e","t"," ","f","o","r"," ","h","a","n","d","l","i","n","g"," ","f","o","r","m"," ","v","a","l","i","d","a","t","i","o","n",".">>
   , (* Write a Python script that calculates the factorial of a number. *)
     <<"W","r","i","t","e"," ","a"," ","P","y","t","h","o","n"," ","s","c","r","i","p","t"," ","t","h","a","t"," ","c","a","l","c","u","l","a","t","e","s"," ","t","h","e"," ","f","a","c","t","o","r","i","a","l"," ","o","f"," ","a"," ","n","u","m","b","e","r",".">>
   , (* Create a basic Node.js Express server with one route. *)
     <<"C","r","e","a","t","e"," ","a"," ","b","a","s","i","c"," ","N","o","d","e",".","j","s"," ","E","x","p","r","e","s","s"," ","s","e","r","v","e","r"," ","w","i","t","h"," ","o","n","e"," ","r","o","u","t","e",".">>
   , (* Generate a JavaScript code snippet for async/await function handling. *)
     <<"G","e","n","e","r","a","t","e"," ","a"," ","J","a","v","a","S","c","r","i","p","t"," ","c","o","d","e"," ","s","n","i","p","p","e","t"," ","f","o","r"," ","a","s","y","n","c","/","a","w","a","i","t"," ","f","u","n","c","t","i","o","n"," ","h","a","n","d","l","i","n","g",".">>
   , (* Write a function in JavaScript to calculate Fibonacci numbers. *)
     <<"W","r","i","t","e"," ","a"," ","f","u","n","c","t","i","o","n"," ","i","n"," ","J","a","v","a","S","c","r","i","p","t"," ","t","o"," ","c","a","l","c","u","l","a","t","e"," ","F","i","b","o","n","a","c","c","i"," ","n","u","m","b","e","r","s",".">>
   , (* Create a batch script to automate file backups. *)
     <<"C","r","e","a","t","e"," ","a"," ","b","a","t","c","h"," ","s","c","r","i","p","t"," ","t","o"," ","a","u","t","o","m","a","t","e"," ","f","i","l","e"," ","b","a","c","k","u","p","s",".">> >>

explanationMapping ==
  << (* Write a JavaScript function to reverse a string. *)
     [key |-> <<"W","r","i","t","e"," ","a"," ","J","a","v","a","S","c","r","i","p","t"," ","f","u","n","c","t","i","o","n"," ","t","o"," ","r","e","v","e","r","s","e"," ","a"," ","s","t","r","i","n","g",".">>,
      value |-> "reverse a string"]
   , (* Generate a Python script that reads a CSV file and prints the contents. *)
     [key |-> <<"G","e","n","e","r","a","t","e"," ","a"," ","P","y","t","h","o","n"," ","s","c","r","i","p","t"," ","t","h","a","t"," ","r","e","a","d","s"," ","a"," ","C","S","V"," ","f","i","l","e"," ","a","n","d"," ","p","r","i","n","t","s"," ","t","h","e"," ","c","o","n","t","e","n","t","s",".">>,
      value |-> "read and print contents of a CSV file"]
   , (* Create an HTML page with a simple form and a submit button. *)
     [key |-> <<"C","r","e","a","t","e"," ","a","n"," ","H","T","M","L"," ","p","a","g","e"," ","w","i","t","h"," ","a"," ","s","i","m","p","l","e"," ","f","o","r","m"," ","a","n","d"," ","a"," ","s","u","b","m","i","t"," ","b","u","t","t","o","n",".">>,
      value |-> "create a form for user input"]
   , (* Write a CSS rule that creates a hover effect for buttons. *)
     [key |-> <<"W","r","i","t","e"," ","a"," ","C","S","S"," ","r","u","l","e"," ","t","h","a","t"," ","c","r","e","a","t","e","s"," ","a"," ","h","o","v","e","r"," ","e","f","f","e","c","t"," ","f","o","r"," ","b","u","t","t","o","n","s",".">>,
      value |-> "add hover effects to buttons"]
   , (* Generate a JavaScript snippet for handling form validation. *)
     [key |-> <<"G","e","n","e","r","a","t","e"," ","a"," ","J","a","v","a","S","c","r","i","p","t"," ","s","n","i","p","p","e","t"," ","f","o","r"," ","h","a","n","d","l","i","n","g"," ","f","o","r","m"," ","v","a","l","i","d","a","t","i","o","n",".">>,
      value |-> "validate user input in a form"]
   , (* Write a Python script that calculates the factorial of a number. *)
     [key |-> <<"W","r","i","t","e"," ","a"," ","P","y","t","h","o","n"," ","s","c","r","i","p","t"," ","t","h","a","t"," ","c","a","l","c","u","l","a","t","e","s"," ","t","h","e"," ","f","a","c","t","o","r","i","a","l"," ","o","f"," ","a"," ","n","u","m","b","e","r",".">>,
      value |-> "calculate the factorial of a number"]
   , (* Create a basic Node.js Express server with one route. *)
     [key |-> <<"C","r","e","a","t","e"," ","a"," ","b","a","s","i","c"," ","N","o","d","e",".","j","s"," ","E","x","p","r","e","s","s"," ","s","e","r","v","e","r"," ","w","i","t","h"," ","o","n","e"," ","r","o","u","t","e",".">>,
      value |-> "set up a basic web server"]
   , (* Generate a JavaScript code snippet for async/await function handling. *)
     [key |-> <<"G","e","n","e","r","a","t","e"," ","a"," ","J","a","v","a","S","c","r","i","p","t"," ","c","o","d","e"," ","s","n","i","p","p","e","t"," ","f","o","r"," ","a","s","y","n","c","/","a","w","a","i","t"," ","f","u","n","c","t","i","o","n"," ","h","a","n","d","l","i","n","g",".">>,
      value |-> "handle asynchronous operations in JavaScript"]
   , (* Write a function in JavaScript to calculate Fibonacci numbers. *)
     [key |-> <<"W","r","i","t","e"," ","a"," ","f","u","n","c","t","i","o","n"," ","i","n"," ","J","a","v","a","S","c","r","i","p","t"," ","t","o"," ","c","a","l","c","u","l","a","t","e"," ","F","i","b","o","n","a","c","c","i"," ","n","u","m","b","e","r","s",".">>,
      value |-> "calculate Fibonacci numbers"]
   , (* Create a batch script to automate file backups. *)
     [key |-> <<"C","r","e","a","t","e"," ","a"," ","b","a","t","c","h"," ","s","c","r","i","p","t"," ","t","o"," ","a","u","t","o","m","a","t","e"," ","f","i","l","e"," ","b","a","c","k","u","p","s",".">>,
      value |-> "automate file backups using a batch script"] >>

\* "execute a programming task"
FallbackExplanation == "execute a programming task"

\* the properties every object literal inherits from Object.prototype
ObjectPrototype ==
  << [key |-> <<"c","o","n","s","t","r","u","c","t","o","r">>,
      value |-> [type |-> "function", value |-> "Object"]]
   , [key |-> <<"_","_","d","e","f","i","n","e","G","e","t","t","e","r","_","_">>,
      value |-> [type |-> "function", value |-> "__defineGetter__"]]
   , [key |-> <<"_","_","d","e","f","i","n","e","S","e","t","t","e","r","_","_">>,
      value |-> [type |-> "function", value |-> "__defineSetter__"]]
   , [key |-> <<"h","a","s","O","w","n","P","r","o","p","e","r","t","y">>,
      value |-> [type |-> "function", value |-> "hasOwnProperty"]]
   , [key |-> <<"_","_","l","o","o","k","u","p","G","e","t","t","e","r","_","_">>,
      value |-> [type |-> "function", value |-> "__lookupGetter__"]]
   , [key |-> <<"_","_","l","o","o","k","u","p","S","e","t","t","e","r","_","_">>,
      value |-> [type |-> "function", value |-> "__lookupSetter__"]]
   , [key |-> <<"i","s","P","r","o","t","o","t","y","p","e","O","f">>,
      value |-> [type |-> "function", value |-> "isPrototypeOf"]]
   , [key |-> <<"p","r","o","p","e","r","t","y","I","s","E","n","u","m","e","r","a","b","l","e">>,
      value |-> [type |-> "function", value |-> "propertyIsEnumerable"]]
   , [key |-> <<"t","o","S","t","r","i","n","g">>,
      value |-> [type |-> "function", value |-> "toString"]]
   , [key |-> <<"v","a","l","u","e","O","f">>,
      value |-> [type |-> "function", value |-> "valueOf"]]
   , [key |-> <<"t","o","L","o","c","a","l","e","S","t","r","i","n","g">>,
      value |-> [type |-> "function", value |-> "toLocaleString"]]
   , [key |-> <<"_","_","p","r","o","t","o","_","_">>,
      value |-> [type |-> "object", value |-> "Object.prototype"]] >>

(***************************************************************************)
(* JavaScript values and the String methods the program calls.             *)
(***************************************************************************)
Str(s) == [type |-> "string", value |-> s]

Undefined == [type |-> "undefined", value |-> "undefined"]

\* ToBoolean of a value, as the || operator applies it
Truthy(v) ==
  CASE v.type = "undefined" -> FALSE
    [] v.type = "string" -> v.value # ""
    [] OTHER -> TRUE

\* the lower-case letter of each upper-case ASCII letter
LowerOf == [c \in Range(UpperCase) |-> LowerCase[CHOOSE i \in DOMAIN UpperCase : UpperCase[i] = c]]

\* String.prototype.toLowerCase on one character; U+0130 lowers to two code points
ToLowerCaseChar(c) ==
  IF c \in DOMAIN LowerOf
    THEN <<LowerOf[c]>>
    ELSE IF c = "U+00C9" THEN <<"U+00E9">>
    ELSE IF c = "U+0130" THEN <<"i", "U+0307">>
    ELSE <<c>>

\* String.prototype.toLowerCase: the lowered characters, joined
ToLowerCase(s) ==
  LET lowered == [k \in DOMAIN s |-> ToLowerCaseChar(s[k])]
  IN IF \A k \in DOMAIN s : Len(lowered[k]) = 1
       THEN [k \in DOMAIN s |-> lowered[k][1]]
       ELSE Concat(lowered)

\* a place of the string a replace leaves empty
Removed == ""

RECURSIVE ReplaceWhiteSpaceEach(_)
\* a faulty variant, .replace(/\s/g, '-'): every white-space character becomes a hyphen
ReplaceWhiteSpaceEach(s) ==
  IF s = <<>> THEN <<>>
  ELSE IF Head(s) \in WhiteSpace THEN <<"-">> \o ReplaceWhiteSpaceEach(Tail(s))
  ELSE <<Head(s)>> \o ReplaceWhiteSpaceEach(Tail(s))

\* the first replace of generateSlug: .replace(/\s+/g, '-')
\* a match of \s+ starts at a white-space character that follows none and runs
\* to the last white-space character after it: the first becomes the hyphen,
\* the others go
ReplaceWhiteSpace(s) ==
  SelectSeq([k \in DOMAIN s |->
               IF s[k] \notin WhiteSpace THEN s[k]
               ELSE IF k > 1 /\ s[k - 1] \in WhiteSpace THEN Removed ELSE "-"],
            LAMBDA c : c # Removed)

\* the second replace of generateSlug: .replace(/[^\w-]+/g, '')
\* every match of [^\w-]+ goes, which leaves the characters of [\w-]
RemoveNonWord(s) == SelectSeq(s, LAMBDA c : c \in WordOrHyphen)

generateSlug(title) == RemoveNonWord(ReplaceWhiteSpace(ToLowerCase(title)))

RECURSIVE TrimStart(_)
TrimStart(s) == IF s # <<>> /\ Head(s) \in WhiteSpace THEN TrimStart(Tail(s)) ELSE s

RECURSIVE TrimEnd(_)
TrimEnd(s) ==
  IF s # <<>> /\ s[Len(s)] \in WhiteSpace THEN TrimEnd(SubSeq(s, 1, Len(s) - 1)) ELSE s

\* String.prototype.trim
Trim(s) == TrimEnd(TrimStart(s))

\* s.split(sep) for a separator of one character: the pieces between the
\* separators, an empty piece where two separators meet
Split(s, sep) ==
  LET at == SelectSeq([k \in 1..Len(s) |-> k], LAMBDA k : s[k] = sep)
      n == Len(at)
  IN [j \in 1..(n + 1) |->
        SubSeq(s, IF j = 1 THEN 1 ELSE at[j - 1] + 1,
                  IF j = n + 1 THEN Len(s) ELSE at[j] - 1)]

\* a[n] of a JavaScript array (n counted from 0), converted to a string by a template
ElementText(a, n) ==
  IF n + 1 \in DOMAIN a THEN a[n + 1] ELSE <<"u","n","d","e","f","i","n","e","d">>

\* encodeURIComponent on the characters a title can hold
EncodeURIComponentChar(c) ==
  CASE c = " " -> <<"%","2","0">>
    [] c = "/" -> <<"%","2","F">>
    [] c = "\t" -> <<"%","0","9">>
    [] c = "\n" -> <<"%","0","A">>
    [] OTHER -> <<c>>

EncodeURIComponent(s) == Concat([i \in DOMAIN s |-> EncodeURIComponentChar(s[i])])

(***************************************************************************)
(* generateProblemExplanation (src/index.js 141-157).                      *)
(***************************************************************************)
\* obj[key]: the object's own property, else the one inherited from
\* Object.prototype, else undefined
GetProperty(own, key) ==
  IF \E i \in DOMAIN own : own[i].key = key
    THEN Str(own[CHOOSE i \in DOMAIN own : own[i].key = key].value)
  ELSE IF \E i \in DOMAIN ObjectPrototype : ObjectPrototype[i].key = key
    THEN ObjectPrototype[CHOOSE i \in DOMAIN ObjectPrototype : ObjectPrototype[i].key = key].value
  ELSE Undefined

generateProblemExplanation(prompt) ==
  LET found == GetProperty(explanationMapping, prompt)
  IN IF Truthy(found) THEN found ELSE Str(FallbackExplanation)

(***************************************************************************)
(* The environment: what the remote services and the clock can answer.     *)
(***************************************************************************)
\* response.data.choices[0].text of a successful completion of the prompt: the
\* service answers a prompt with a text about it, wrapped in white space
Completion(prompt) ==
  <<"\n", "\n">> \o ElementText(Split(prompt, " "), 2) \o <<"(", ")", ";", "\n">>

\* the ways the completion call can fail
GenerateErrors == {"transport error", "non-success response", "no choices[0].text"}

\* new Date().toLocaleDateString() on the given day
LocaleDateString(day) == <<"1","1","/">> \o <<Digits[(day % 10) + 1]>> \o <<"/","2","0","2","6">>

\* the _id the content store gives the asset of an upload and the document of a
\* create: unique per request, here named after the invocation that sent it
AssetId(i) == "image-" \o ToString(i)

DocumentId(i) == "post-" \o ToString(i)

Null == "null"

NoDocument == [_type |-> "none"]

(***************************************************************************)
(* The cron expression '0 18 * * *' (minute hour day-of-month month        *)
(* day-of-week) in the timezone Africa/Johannesburg.                      *)
(***************************************************************************)
CronMinute == 0
CronHour == 18

\* node-cron matches the expression against the wall clock of the timezone
CronMatches(t) == t.minute = CronMinute /\ t.hour = CronHour

\* the clock one minute later
NextMinute(t) ==
  IF t.minute < 59 THEN [t EXCEPT !.minute = t.minute + 1]
  ELSE IF t.hour < 23 THEN [t EXCEPT !.minute = 0, !.hour = t.hour + 1]
  ELSE [day |-> t.day + 1, hour |-> 0, minute |-> 0]

(***************************************************************************)
(* generateCodeSnippet and createSanityPost.  An invocation is a record of *)
(* the local variables of the two async functions, the await it is parked  *)
(* at (pc), and the history of what it did: the remote calls it issued     *)
(* (calls), their outcomes (results), its console output (logs) and the    *)
(* state of the promise generateCodeSnippet() returned (settled).  The     *)
(* locals die with the frame when the invocation ends.                     *)
(***************************************************************************)
Running(i) == inv[i].pc # "done"

\* a faulty variant, randomPrompt declared at module scope: every invocation
\* reads the prompt drawn last
SelectedPromptShared(i) ==
  IF inv[Len(inv)].pc # "done" THEN inv[Len(inv)].randomPrompt ELSE inv[i].randomPrompt

\* const randomPrompt, block-scoped to the invocation that drew it
SelectedPrompt(i) == inv[i].randomPrompt

\* the synchronous start of generateCodeSnippet(): draw a prompt, post it
StartInvocation(prompt) ==
  [pc |-> "awaitGenerate",
   randomPrompt |-> prompt,
   received |-> <<>>,
   snippet |-> <<>>,
   uniqueTitle |-> <<>>,
   problemExplanation |-> Undefined,
   slug |-> <<>>,
   imageUrl |-> <<>>,
   document |-> NoDocument,
   calls |-> <<"generate">>,
   results |-> <<>>,
   logs |-> <<>>,
   settled |-> "pending"]

\* the frame of a finished invocation: its locals are gone, its history stays
EndInvocation(r, settled) ==
  [r EXCEPT !.pc = "done",
            !.randomPrompt = <<>>,
            !.received = <<>>,
            !.snippet = <<>>,
            !.uniqueTitle = <<>>,
            !.problemExplanation = Undefined,
            !.slug = <<>>,
            !.imageUrl = <<>>,
            !.document = NoDocument,
            !.settled = settled]

\* the object literal of createSanityPost, once uploadImageToSanity has answered
BuildDocument(title, slug, snippet, problemExplanation, imageRef) ==
  [_type |-> "post",
   title |-> title,
   slug |-> [_type |-> "slug", current |-> slug],
   author |-> "SANITY_AUTHOR_ID",
   mainImage |-> [_type |-> "image", asset |-> [_type |-> "reference", _ref |-> imageRef]],
   categories |-> <<"SANITY_CATEGORY_ID">>,
   code |-> [_type |-> "code", title |-> "Code Snippet", code |-> snippet, language |-> "javascript"],
   explanation |-> problemExplanation.value]

\* createSanityPost after `await uploadImageToSanity(imageUrl)`: build the
\* document and call client.create
IssueCreate(r, outcome, log, imageRef) ==
  [r EXCEPT !.pc = "awaitCreate",
            !.document = BuildDocument(r.uniqueTitle, r.slug, r.snippet,
                                       r.problemExplanation, imageRef),
            !.calls = Append(r.calls, "create"),
            !.results = Append(r.results, outcome),
            !.logs = r.logs \o log]

(***************************************************************************)
(* The scheduler.                                                          *)
(***************************************************************************)
\* a faulty variant: the callback skips the run while an earlier one is in flight
CronCallbackGuarded(prompt) ==
  IF \E i \in DOMAIN inv : Running(i) THEN inv ELSE Append(inv, StartInvocation(prompt))

\* the callback given to cron.schedule: log, then call generateCodeSnippet()
\* without awaiting or keeping the promise it returns
CronCallback(prompt) == Append(inv, StartInvocation(prompt))

\* promptList[Math.floor(Math.random() * promptList.length)]
RandomPrompts == {promptList[k + 1] : k \in 0..(Len(promptList) - 1)}

Init ==
  /\ fires = 0
  /\ armed = TRUE
  /\ inv = <<>>
  /\ assets = {}
  /\ documents = {}
  /\ clock = [day |-> 1, hour |-> 0, minute |-> 0]
  /\ justFired = FALSE
  /\ call = [fn |-> "none", arg |-> <<>>, returned |-> FALSE, ret |-> <<>>]

\* the scheduled task fires.  Spec leaves the wall clock out: a fire may come at
\* any point of the other invocations' progress, and the clock stands still
Fire ==
  /\ armed
  /\ fires < MaxFires
  /\ \E prompt \in RandomPrompts : inv' = CronCallback(prompt)
  /\ fires' = fires + 1
  /\ UNCHANGED <<armed, assets, documents, clock, justFired, call>>

\* one minute passes on the wall clock; the task fires if the expression matches
Tick ==
  /\ armed
  /\ NextMinute(clock).day <= MaxDays
  /\ clock' = NextMinute(clock)
  /\ justFired' = CronMatches(clock')
  /\ IF CronMatches(clock')
       THEN /\ \E prompt \in RandomPrompts : inv' = CronCallback(prompt)
            /\ fires' = fires + 1
       ELSE UNCHANGED <<inv, fires>>
  /\ UNCHANGED <<armed, assets, documents, call>>

(***************************************************************************)
(* The steps of one invocation: each is the code that runs when the        *)
(* awaited remote call settles, up to the next await or the return.        *)
(***************************************************************************)
\* axios.post resolved with a body holding choices[0].text
GenerateSucceeded(i) ==
  /\ inv[i].pc = "awaitGenerate"
  /\ \E text \in {Completion(inv[i].randomPrompt)} :
       LET prompt == SelectedPrompt(i)
           snippet == Trim(text)
           uniqueTitle == ElementText(Split(prompt, " "), 1)
                            \o <<" ","E","x","a","m","p","l","e"," ","-"," ">>
                            \o LocaleDateString(clock.day)
           problemExplanation == generateProblemExplanation(prompt)
       IN inv' = [inv EXCEPT ![i] =
                    [@ EXCEPT !.pc = "awaitFetch",
                              !.received = text,
                              !.snippet = snippet,
                              !.uniqueTitle = uniqueTitle,
                              !.problemExplanation = problemExplanation,
                              !.slug = generateSlug(uniqueTitle),
                              !.imageUrl = PLACEHOLDER_IMAGE_API \o EncodeURIComponent(uniqueTitle),
                              !.calls = Append(@, "fetch"),
                              !.results = Append(@, "ok"),
                              !.logs = Append(@, "Generated Snippet:")]]
  /\ UNCHANGED <<fires, armed, assets, documents, clock, justFired, call>>

\* a faulty variant: the failure is logged and a post without a snippet is created
GenerateFailedCreates(i) ==
  /\ inv[i].pc = "awaitGenerate"
  /\ \E error \in GenerateErrors :
       inv' = [inv EXCEPT ![i] =
                 IssueCreate(@, error, <<"Error generating snippet:">>, Null)]
  /\ UNCHANGED <<fires, armed, assets, documents, clock, justFired, call>>

\* a faulty variant: the try covers only axios.post: after the log createSanityPost runs
GenerateFailedContinues(i) ==
  /\ inv[i].pc = "awaitGenerate"
  /\ \E error \in GenerateErrors :
       inv' = [inv EXCEPT ![i] =
                 [@ EXCEPT !.pc = "awaitFetch",
                           !.calls = Append(@, "fetch"),
                           !.results = Append(@, error),
                           !.logs = Append(@, "Error generating snippet:")]]
  /\ UNCHANGED <<fires, armed, assets, documents, clock, justFired, call>>

\* a faulty variant: a failed completion is requested once more
GenerateFailedRetries(i) ==
  /\ inv[i].pc = "awaitGenerate"
  /\ \E error \in GenerateErrors :
       inv' = [inv EXCEPT ![i] =
                 IF Len(inv[i].calls) = 1
                   THEN [@ EXCEPT !.calls = Append(@, "generate"),
                                  !.results = Append(@, error),
                                  !.logs = Append(@, "Error generating snippet:")]
                   ELSE EndInvocation([@ EXCEPT !.results = Append(@, error),
                                                !.logs = Append(@, "Error generating snippet:")],
                                      "fulfilled")]
  /\ UNCHANGED <<fires, armed, assets, documents, clock, justFired, call>>

\* a faulty variant, generateCodeSnippet without its try/catch: the promise rejects,
\* nobody handles the rejection and the process ends
GenerateFailedRejects(i) ==
  /\ inv[i].pc = "awaitGenerate"
  /\ \E error \in GenerateErrors :
       inv' = [inv EXCEPT ![i] =
                 EndInvocation([@ EXCEPT !.results = Append(@, error)], "rejected")]
  /\ armed' = FALSE
  /\ UNCHANGED <<fires, assets, documents, clock, justFired, call>>

\* axios.post rejected, or the body had no choices[0].text: the catch of
\* generateCodeSnippet logs and the function returns
GenerateFailed(i) ==
  /\ inv[i].pc = "awaitGenerate"
  /\ \E error \in GenerateErrors :
       inv' = [inv EXCEPT ![i] =
                 EndInvocation([@ EXCEPT !.results = Append(@, error),
                                         !.logs = Append(@, "Error generating snippet:")],
                               "fulfilled")]
  /\ UNCHANGED <<fires, armed, assets, documents, clock, justFired, call>>

\* axios.get resolved with the image bytes: upload them
FetchSucceeded(i) ==
  /\ inv[i].pc = "awaitFetch"
  /\ inv' = [inv EXCEPT ![i] = [@ EXCEPT !.pc = "awaitUpload",
                                         !.calls = Append(@, "upload"),
                                         !.results = Append(@, "ok")]]
  /\ UNCHANGED <<fires, armed, assets, documents, clock, justFired, call>>

\* a faulty variant, uploadImageToSanity without its try/catch: the error reaches the
\* catch of createSanityPost and no document is created
FetchFailedPropagates(i) ==
  /\ inv[i].pc = "awaitFetch"
  /\ inv' = [inv EXCEPT ![i] =
               EndInvocation([@ EXCEPT !.results = Append(@, "error"),
                                       !.logs = Append(@, "Error saving snippet post to Sanity:")],
                             "fulfilled")]
  /\ UNCHANGED <<fires, armed, assets, documents, clock, justFired, call>>

\* axios.get rejected: the catch of uploadImageToSanity logs and returns null
FetchFailed(i) ==
  /\ inv[i].pc = "awaitFetch"
  /\ inv' = [inv EXCEPT ![i] =
               IssueCreate(@, "error", <<"Error uploading image to Sanity:">>, Null)]
  /\ UNCHANGED <<fires, armed, assets, documents, clock, justFired, call>>

\* client.assets.upload resolved: the store holds a new asset and returned its _id
UploadSucceeded(i) ==
  /\ inv[i].pc = "awaitUpload"
  /\ assets' = assets \cup {AssetId(i)}
  /\ inv' = [inv EXCEPT ![i] = IssueCreate(@, "ok", <<>>, AssetId(i))]
  /\ UNCHANGED <<fires, armed, documents, clock, justFired, call>>

\* client.assets.upload rejected: the same catch, null again
UploadFailed(i) ==
  /\ inv[i].pc = "awaitUpload"
  /\ inv' = [inv EXCEPT ![i] =
               IssueCreate(@, "error", <<"Error uploading image to Sanity:">>, Null)]
  /\ UNCHANGED <<fires, armed, assets, documents, clock, justFired, call>>

\* client.create resolved: the store holds the post
CreateSucceeded(i) ==
  /\ inv[i].pc = "awaitCreate"
  /\ documents' = documents \cup {DocumentId(i)}
  /\ inv' = [inv EXCEPT ![i] =
               EndInvocation([@ EXCEPT !.results = Append(@, "ok"),
                                       !.logs = Append(@, "Snippet post saved to Sanity.")],
                             "fulfilled")]
  /\ UNCHANGED <<fires, armed, assets, clock, justFired, call>>

\* client.create rejected: the catch of createSanityPost logs, nothing is re-raised
CreateFailed(i) ==
  /\ inv[i].pc = "awaitCreate"
  /\ inv' = [inv EXCEPT ![i] =
               EndInvocation([@ EXCEPT !.results = Append(@, "error"),
                                       !.logs = Append(@, "Error saving snippet post to Sanity:")],
                             "fulfilled")]
  /\ UNCHANGED <<fires, armed, assets, documents, clock, justFired, call>>

Next ==
  \/ Fire
  \/ \E i \in DOMAIN inv : GenerateSucceeded(i)
  \/ \E i \in DOMAIN inv : GenerateFailed(i)
  \/ \E i \in DOMAIN inv : FetchSucceeded(i)
  \/ \E i \in DOMAIN inv : FetchFailed(i)
  \/ \E i \in DOMAIN inv : UploadSucceeded(i)
  \/ \E i \in DOMAIN inv : UploadFailed(i)
  \/ \E i \in DOMAIN inv : CreateSucceeded(i)
  \/ \E i \in DOMAIN inv : CreateFailed(i)

Spec == Init /\ [][Next]_vars

\* the scheduler driven by the wall clock, minute by minute
CronNext ==
  \/ Tick
  \/ \E i \in DOMAIN inv : GenerateSucceeded(i)
  \/ \E i \in DOMAIN inv : GenerateFailed(i)
  \/ \E i \in DOMAIN inv : FetchSucceeded(i)
  \/ \E i \in DOMAIN inv : FetchFailed(i)
  \/ \E i \in DOMAIN inv : UploadSucceeded(i)
  \/ \E i \in DOMAIN inv : UploadFailed(i)
  \/ \E i \in DOMAIN inv : CreateSucceeded(i)
  \/ \E i \in DOMAIN inv : CreateFailed(i)

CronSpec == Init /\ [][CronNext]_vars

(***************************************************************************)
(* Direct calls of the two pure helpers, on arbitrary arguments.           *)
(***************************************************************************)
TitleChars == {"A", "b", "1", "_", "-", " ", "\t", "!", "U+00C9", "U+0130"}

RECURSIVE StringsUpTo(_, _)
\* the strings over the alphabet of length at most n
StringsUpTo(alphabet, n) ==
  IF n = 0 THEN {<<>>}
  ELSE LET shorter == StringsUpTo(alphabet, n - 1)
       IN shorter \cup {Append(s, c) : s \in shorter, c \in alphabet}

Titles == StringsUpTo(TitleChars, MaxTitleLen)

\* the prompts, near misses of them, names Object.prototype defines, short strings
PromptInputs ==
  Range(promptList)
    \cup {ToLowerCase(p) : p \in Range(promptList)}
    \cup {SubSeq(p, 1, Len(p) - 1) : p \in Range(promptList)}
    \cup {ObjectPrototype[i].key : i \in DOMAIN ObjectPrototype}
    \cup StringsUpTo({"a", " "}, MaxTitleLen)

\* a call that has been made and has not returned yet
PendingCall(fn, arg) == [fn |-> fn, arg |-> arg, returned |-> FALSE, ret |-> <<>>]

FnInit ==
  /\ fires = 0
  /\ armed = TRUE
  /\ inv = <<>>
  /\ assets = {}
  /\ documents = {}
  /\ clock = [day |-> 1, hour |-> 0, minute |-> 0]
  /\ justFired = FALSE
  /\ call \in {PendingCall("generateSlug", title) : title \in Titles}
            \cup {PendingCall("generateProblemExplanation", prompt) : prompt \in PromptInputs}

CallGenerateSlug ==
  /\ call.fn = "generateSlug" /\ ~call.returned
  /\ call' = [call EXCEPT !.returned = TRUE, !.ret = generateSlug(call.arg)]
  /\ UNCHANGED <<fires, armed, inv, assets, documents, clock, justFired>>

CallGenerateProblemExplanation ==
  /\ call.fn = "generateProblemExplanation" /\ ~call.returned
  /\ call' = [call EXCEPT !.returned = TRUE, !.ret = generateProblemExplanation(call.arg)]
  /\ UNCHANGED <<fires, armed, inv, assets, documents, clock, justFired>>

FnNext == CallGenerateSlug \/ CallGenerateProblemExplanation

FnSpec == FnInit /\ [][FnNext]_vars

(***************************************************************************)
(* Properties.                                                             *)
(***************************************************************************)
\* the order in which createSanityPost's invocation issues its remote calls
CallOrder == <<"generate", "fetch", "upload", "create">>

Issued(i, c) == \E k \in DOMAIN inv[i].calls : inv[i].calls[k] = c

\* the outcome of the invocation's call c: "ok", an error, or "pending"
ResultOf(i, c) ==
  IF \E k \in DOMAIN inv[i].results : inv[i].calls[k] = c
    THEN inv[i].results[CHOOSE k \in DOMAIN inv[i].results : inv[i].calls[k] = c]
    ELSE "pending"

GenerationFailed(i) == ResultOf(i, "generate") \in GenerateErrors

ImageFailed(i) == ResultOf(i, "fetch") = "error" \/ ResultOf(i, "upload") = "error"

\* C1: an invocation whose text-generation call failed (transport error,
\* non-success response or a body without choices[0].text) never issues the
\* document-create call: it has ended, it holds no document and the store
\* holds no document of it.
C1_NoCreateAfterFailedGeneration ==
  \A i \in DOMAIN inv :
    GenerationFailed(i) =>
      /\ ~Issued(i, "create")
      /\ inv[i].pc = "done"
      /\ inv[i].document = NoDocument
      /\ DocumentId(i) \notin documents

C1_Witness ==
  /\ \E i \in DOMAIN inv : ResultOf(i, "generate") = "transport error"
  /\ \E i \in DOMAIN inv : ResultOf(i, "generate") = "no choices[0].text"

\* C2: when generation succeeded and the image fetch or the asset upload
\* failed, the document-create call is still issued and the document passed
\* to it has mainImage.asset._ref = null; when fetch and upload both
\* succeeded the reference is the asset id the upload returned.
C2_ImageFailureYieldsNullRef ==
  \A i \in DOMAIN inv :
    /\ ImageFailed(i) =>
         /\ ResultOf(i, "generate") = "ok"
         /\ Issued(i, "create")
         /\ inv[i].pc = "awaitCreate" =>
              inv[i].document.mainImage.asset._ref = Null
    /\ ResultOf(i, "upload") = "ok" =>
         /\ Issued(i, "create")
         /\ AssetId(i) \in assets
         /\ inv[i].pc = "awaitCreate" =>
              inv[i].document.mainImage.asset._ref = AssetId(i)

C2_Witness ==
  \E i, j \in DOMAIN inv :
    /\ inv[i].pc = "awaitCreate" /\ ResultOf(i, "upload") = "error"
    /\ inv[i].document.mainImage.asset._ref = Null
    /\ ResultOf(j, "fetch") = "error" /\ ResultOf(j, "create") = "ok"

\* the positions of the calls of a trace in CallOrder
PositionOf(c) == CHOOSE k \in DOMAIN CallOrder : CallOrder[k] = c

\* C3: the calls of an invocation are a subsequence of generate, fetch,
\* upload, create that starts with generate (so each is issued at most once,
\* in that order), and a call is issued only when every earlier call of the
\* invocation has completed: at most the last call is outstanding.
C3_CallsInFixedOrder ==
  \A i \in DOMAIN inv :
    LET calls == inv[i].calls
    IN /\ calls # <<>> /\ calls[1] = "generate"
       /\ \A k \in DOMAIN calls : \E n \in DOMAIN CallOrder : CallOrder[n] = calls[k]
       /\ \A k \in 1..(Len(calls) - 1) : PositionOf(calls[k]) < PositionOf(calls[k + 1])
       /\ Len(inv[i].results) = IF Running(i) THEN Len(calls) - 1 ELSE Len(calls)

C3_Witness ==
  /\ \E i \in DOMAIN inv : inv[i].calls = <<"generate", "fetch", "upload", "create">>
  /\ \E i \in DOMAIN inv : inv[i].calls = <<"generate", "fetch", "create">> /\ ~Running(i)

\* C4: every fire of the scheduler has started exactly one invocation,
\* whether or not earlier invocations were still awaiting a remote call.
C4_OneInvocationPerFire == Len(inv) = fires

\* two invocations in flight at once, the second started while the first awaited
C4_Witness ==
  /\ fires = 2
  /\ \E i, j \in DOMAIN inv : i < j /\ Running(i) /\ Running(j)

\* the console line that ends an invocation
FinalLogs ==
  {"Error generating snippet:", "Snippet post saved to Sanity.",
   "Error saving snippet post to Sanity:"}

\* C5: no failure escapes an invocation: the promise of generateCodeSnippet
\* never rejects, an ended invocation has logged its outcome and fulfilled
\* its promise, the process stays alive with the scheduler armed, the next
\* fire is possible whatever happened before, and an invocation that has
\* just started is in the same state whatever earlier invocations did.
C5_NoFailureEscapes ==
  /\ armed
  /\ fires < MaxFires => ENABLED Fire
  /\ \A i \in DOMAIN inv :
       /\ inv[i].settled # "rejected"
       /\ ~Running(i) =>
            /\ inv[i].settled = "fulfilled"
            /\ inv[i].logs # <<>>
            /\ inv[i].logs[Len(inv[i].logs)] \in FinalLogs
       /\ inv[i].pc = "awaitGenerate" => inv[i] = StartInvocation(inv[i].randomPrompt)

C5_Witness ==
  \E i, j \in DOMAIN inv :
    /\ i < j
    /\ ~Running(i) /\ ResultOf(i, "create") = "error" /\ ResultOf(i, "upload") = "error"
    /\ ~Running(j) /\ GenerationFailed(j)

\* the explanation the static mapping holds for a prompt of the list
MappedExplanation(prompt) ==
  explanationMapping[CHOOSE k \in DOMAIN explanationMapping :
                       explanationMapping[k].key = prompt].value

\* C6 (as claimed): generateProblemExplanation returns the mapped explanation
\* for every prompt of promptList and the fallback "execute a programming
\* task" for every other string.
C6_ExplanationOrFallback ==
  (call.fn = "generateProblemExplanation" /\ call.returned) =>
    IF call.arg \in Range(promptList)
      THEN call.ret = Str(MappedExplanation(call.arg))
      ELSE call.ret = Str(FallbackExplanation)

RECURSIVE SkipRun(_, _)
\* s without its longest prefix of characters of the set
SkipRun(s, set) == IF s # <<>> /\ Head(s) \in set THEN SkipRun(Tail(s), set) ELSE s

RECURSIVE ReplaceRuns(_, _, _)
\* s with each maximal run of characters of the set replaced by repl
ReplaceRuns(s, set, repl) ==
  IF s = <<>> THEN <<>>
  ELSE IF Head(s) \in set THEN repl \o ReplaceRuns(SkipRun(s, set), set, repl)
  ELSE <<Head(s)>> \o ReplaceRuns(Tail(s), set, repl)

\* the characters of the model's titles, lowered ones included
AllChars ==
  WordOrHyphen \cup WhiteSpace \cup {"!", "/", ".", "U+00C9", "U+00E9", "U+0130", "U+0307"}

\* the characters a slug may hold: [a-z0-9_] and the hyphen
SlugChars == Range(LowerCase) \cup Range(Digits) \cup {"_", "-"}

\* C7: generateSlug(T) holds only lower-case word characters and hyphens (so
\* no white space and no upper case), and it is T lowered, with each maximal
\* run of white space replaced by one hyphen and every other character that
\* is neither a word character nor a hyphen deleted.
C7_SlugIsNormalisedTitle ==
  (call.fn = "generateSlug" /\ call.returned) =>
    LET lowered == ToLowerCase(call.arg)
    IN /\ Range(call.ret) \subseteq SlugChars
       /\ Range(call.ret) \cap WhiteSpace = {}
       /\ Range(lowered) \subseteq AllChars
       /\ call.ret = ReplaceRuns(ReplaceRuns(lowered, WhiteSpace, <<"-">>),
                                 AllChars \ WordOrHyphen, <<>>)

C7_Witness ==
  /\ call.fn = "generateSlug" /\ call.returned
  /\ call.arg = <<"A", " ", "\t", "!">>
  /\ call.ret = <<"a", "-">>

\* C8: under every interleaving the document an invocation passes to
\* client.create is built from that invocation's own values: its code is the
\* trimmed text its own completion call returned, its explanation is the one
\* mapped to its own prompt, its title starts with the second word of that
\* prompt, and its slug is generateSlug of its title.
C8_DocumentBelongsToInvocation ==
  \A i \in DOMAIN inv :
    inv[i].pc = "awaitCreate" =>
      LET doc == inv[i].document
          word == ElementText(Split(inv[i].randomPrompt, " "), 1)
      IN /\ inv[i].received = Completion(inv[i].randomPrompt)
         /\ doc.code.code = Trim(inv[i].received)
         /\ doc.explanation = MappedExplanation(inv[i].randomPrompt)
         /\ SubSeq(doc.title, 1, Len(word) + 1) = Append(word, " ")
         /\ doc.title = inv[i].uniqueTitle
         /\ doc.slug.current = generateSlug(doc.title)

\* two overlapping invocations with different prompts, both about to create
C8_Witness ==
  \E i, j \in DOMAIN inv :
    /\ i < j
    /\ inv[i].pc = "awaitCreate" /\ inv[j].pc = "awaitCreate"
    /\ inv[i].document.explanation # inv[j].document.explanation
    /\ inv[i].document.code.code # inv[j].document.code.code
    /\ inv[i].document.title # inv[j].document.title

\* C9 (as claimed): the trigger fires exactly when the clock of
\* Africa/Johannesburg shows 20:00, and at no other time.
C9_FiresAtTwentyHundred == justFired <=> (clock.hour = 20 /\ clock.minute = 0)

\* the step in which an invocation's text generation fails changes neither the
\* assets nor the documents of the store and ends the invocation
C10_FailedGenerationStep ==
  \A i \in DOMAIN inv :
    (inv[i].pc = "awaitGenerate" /\ inv'[i].results # <<>>
       /\ inv'[i].results[1] \in GenerateErrors) =>
      /\ assets' = assets
      /\ documents' = documents
      /\ inv'[i].pc = "done"
      /\ inv'[i].calls = <<"generate">>

\* C10: the step in which an invocation's text generation fails leaves the
\* assets and documents of the content store as they were, and ends the
\* invocation with generate as the only call it ever issued; an invocation
\* whose generation failed has issued no fetch and no upload and owns no asset.
C10_FailedGenerationLeavesStoreAlone ==
  /\ [][C10_FailedGenerationStep]_vars
  /\ [](\A i \in DOMAIN inv :
          GenerationFailed(i) =>
            /\ ~Issued(i, "fetch") /\ ~Issued(i, "upload")
            /\ AssetId(i) \notin assets)

C10_Witness ==
  \E i, j \in DOMAIN inv :
    /\ GenerationFailed(i)
    /\ AssetId(j) \in assets /\ DocumentId(j) \in documents

====
